---------------------------- MODULE Spec2Model ----------------------------
(***************************************************************************)
(* A model of src/summarizer.py: the Summarizer class that condenses a     *)
(* text file chunk by chunk (process_file -> __get_first_line,             *)
(* __get_message_lang, __get_message_encoding, __summary_file ->           *)
(* __luhn_summarizer).                                                     *)
(*                                                                         *)
(* Representation of data.                                                 *)
(*  - A decoded text (a Python str) is a sequence of pieces, a piece being *)
(*    an optional sentence followed by an optional '\n'.  A sentence is     *)
(*    the term weight the toolkit computes for it                          *)
(*    (TfidfVectorizer.fit_transform(...).sum(), an ordinal here), or      *)
(*    EmptyVocab for a sentence for which fit_transform raises ValueError  *)
(*    (nothing but stop words or punctuation).  Equal consecutive pieces   *)
(*    are kept as one run with a count, and a sentence directly followed   *)
(*    by '\n' is always one piece, so that equal strings are equal values. *)
(*  - A file opened in binary mode is a sequence of byte lines, each a     *)
(*    sequence of byte values (see the __get_first_line section).          *)
(*  - An exception is the name of its class; "none" is no exception.       *)
(***************************************************************************)
EXTENDS Integers, Sequences, FiniteSets, TLC

(***************************************************************************)
(* Module constants, src/summarizer.py lines 13-20.                        *)
(***************************************************************************)
LANG == {"en", "ru"}

BUFFER_LIMIT == 1000

\* A path or an extension is a sequence of characters.
ALLOWED_FILE_EXTENTIONS == {<<".", "t", "x", "t">>}

\* CONTENT_AMOUNT = 0.3 is an IEEE-754 double.  The double nearest to 0.3 is
\* 5404319552844595 * 2^-54; its 53-bit significand is kept in three limbs of
\* 18 bits, most significant first (78643 * 2^36 + 52428 * 2^18 + 209715).
CONTENT_AMOUNT == <<78643, 52428, 209715>>

Limb == 2 ^ 18

(***************************************************************************)
(* Bounds of the model.                                                    *)
(***************************************************************************)
\* Largest term weight of a sentence (weights are 1..MaxScore).
MaxScore == 3

\* Longest enumerated small text, in pieces.
MaxLen == 3

\* Largest num_sentences handed to __luhn_summarizer when it is called directly.
MaxK == 3

(***************************************************************************)
(* Texts.                                                                  *)
(***************************************************************************)
\* The s field of a piece without a sentence (a bare '\n').
NoSentence == 0

EmptyVocab == -1

Scores == 1..MaxScore

SentenceTokens == Scores \cup {EmptyVocab}

\* The pieces: a sentence, a sentence followed by '\n', or '\n' alone.
Pieces ==
    {[s |-> x, nl |-> b] : x \in SentenceTokens \cup {NoSentence}, b \in BOOLEAN}
        \ {[s |-> NoSentence, nl |-> FALSE]}

RECURSIVE SeqsUpTo(_, _)
\* All sequences over S of length at most n.
SeqsUpTo(S, n) ==
    IF n = 0 THEN {<<>>}
    ELSE LET shorter == SeqsUpTo(S, n - 1)
         IN  shorter \cup {Append(s, x) : s \in {t \in shorter : Len(t) = n - 1}, x \in S}

Run(s, nl, n) == [s |-> s, nl |-> nl, n |-> n]

\* The string '\n'.
NL == <<Run(NoSentence, TRUE, 1)>>

Front(t) == SubSeq(t, 1, Len(t) - 1)

\* text minus its last piece
DropLastPiece(text) ==
    LET l == text[Len(text)]
    IN  IF l.n = 1 THEN Front(text)
        ELSE Append(Front(text), Run(l.s, l.nl, l.n - 1))

\* text followed by n copies of one piece that does not fuse with the end
\* of text
AppendPlain(text, s, nl, n) ==
    IF text # <<>> /\ text[Len(text)].s = s /\ text[Len(text)].nl = nl
    THEN Append(Front(text), Run(s, nl, text[Len(text)].n + n))
    ELSE Append(text, Run(s, nl, n))

\* text followed by n copies of the piece (s, nl): a '\n' that comes right
\* after an unterminated sentence ends that sentence's piece.
AppendRun(text, s, nl, n) ==
    IF text # <<>> /\ ~text[Len(text)].nl /\ s = NoSentence
    THEN LET closed == AppendPlain(DropLastPiece(text), text[Len(text)].s, TRUE, 1)
         IN  IF n = 1 THEN closed ELSE AppendPlain(closed, s, nl, n - 1)
    ELSE AppendPlain(text, s, nl, n)

RECURSIVE ConcatFrom(_, _, _)
ConcatFrom(a, b, i) ==
    IF i > Len(b) THEN a
    ELSE ConcatFrom(AppendRun(a, b[i].s, b[i].nl, b[i].n), b, i + 1)

\* a + b on strings
Concat(a, b) == ConcatFrom(a, b, 1)

RECURSIVE TextOfRange(_, _, _)
\* The text made of the pieces lo..hi of a sequence of pieces (halved, to
\* keep the evaluation shallow).
TextOfRange(pieces, lo, hi) ==
    IF lo > hi THEN <<>>
    ELSE IF lo = hi THEN <<Run(pieces[lo].s, pieces[lo].nl, 1)>>
    ELSE LET mid == (lo + hi) \div 2
         IN  Concat(TextOfRange(pieces, lo, mid), TextOfRange(pieces, mid + 1, hi))

\* The text made of a sequence of pieces.
TextOf(pieces) == TextOfRange(pieces, 1, Len(pieces))

RECURSIVE NumPiecesFrom(_, _)
NumPiecesFrom(text, i) ==
    IF i > Len(text) THEN 0 ELSE text[i].n + NumPiecesFrom(text, i + 1)

\* The number of pieces of a text.
NumPieces(text) == NumPiecesFrom(text, 1)

RECURSIVE PieceAtFrom(_, _, _)
PieceAtFrom(text, k, i) ==
    IF i <= text[k].n THEN [s |-> text[k].s, nl |-> text[k].nl]
    ELSE PieceAtFrom(text, k + 1, i - text[k].n)

\* The i-th piece of a text, 1 <= i <= NumPieces(text).
PieceAt(text, i) == PieceAtFrom(text, 1, i)

RECURSIVE CountNLFrom(_, _)
CountNLFrom(text, i) ==
    IF i > Len(text) THEN 0
    ELSE (IF text[i].nl THEN text[i].n ELSE 0) + CountNLFrom(text, i + 1)

\* str.count('\n')
CountNL(text) == CountNLFrom(text, 1)

(***************************************************************************)
(* int(CONTENT_AMOUNT * n), lines 116 and 130: the product of two doubles, *)
(* rounded to nearest-even to 53 bits, then truncated by int().  With      *)
(* P = n * significand (exact), the result is floor(P / 2^54) unless the    *)
(* rounding of P to 53 bits carries into the integer part.                 *)
(***************************************************************************)
RECURSIVE BitLen(_)
BitLen(x) == IF x = 0 THEN 0 ELSE 1 + BitLen(x \div 2)

IntOfProduct(c, n) ==
    LET p0 == n * c[3]
        p1 == n * c[2] + (p0 \div Limb)
        p2 == n * c[1] + (p1 \div Limb)
        l0 == p0 % Limb
        l1 == p1 % Limb
        q  == p2 \div Limb
        rt == p2 % Limb
        \* bits of P dropped by the rounding to 53 bits
        s  == IF BitLen(p2) > 17 THEN BitLen(p2) - 17 ELSE 0
        carries == /\ s >= 1
                   /\ rt = Limb - 1
                   /\ l1 = Limb - 1
                   /\ l0 >= Limb - 2 ^ (s - 1)
    IN  IF carries THEN q + 1 ELSE q

SentencesAmountNoClamp(buffer) == IntOfProduct(CONTENT_AMOUNT, CountNL(buffer))

\* lines 116-118 and 130-132: senences_amount
SentencesAmount(buffer) ==
    LET senences_amount == IntOfProduct(CONTENT_AMOUNT, CountNL(buffer))
    IN  IF senences_amount <= 0 THEN 1 ELSE senences_amount

(***************************************************************************)
(* __luhn_summarizer, lines 48-87.                                         *)
(***************************************************************************)
RECURSIVE SentencesFrom(_, _)
SentencesFrom(text, k) ==
    IF k > Len(text) THEN <<>>
    ELSE (IF text[k].s = NoSentence THEN <<>> ELSE [i \in 1..text[k].n |-> text[k].s])
             \o SentencesFrom(text, k + 1)

\* sent_tokenize(text), line 69: the sentences of the text in order; line
\* breaks are white space between sentences.
sent_tokenize(text) == SentencesFrom(text, 1)

\* lines 75-80: sentence_scores, keyed by the 0-based sentence index.
SentenceScores(sentences) == [i \in 0..(Len(sentences) - 1) |-> sentences[i + 1]]

\* line 80: fit_transform raises ValueError (empty vocabulary) for a sentence
\* left without any term.
ScoringRaises(sentences) == \E i \in 1..Len(sentences) : sentences[i] = EmptyVocab

\* The order heapq.nlargest ranks the keys in: i comes before j when its
\* score is larger, and among equal scores when it was met first.
RanksBeforeTieLast(scores, i, j) ==
    scores[i] > scores[j] \/ (scores[i] = scores[j] /\ i > j)

RanksBefore(scores, i, j) ==
    scores[i] > scores[j] \/ (scores[i] = scores[j] /\ i < j)

\* sorted(iterable, key=key, reverse=True) over the keys 0..N-1 in insertion
\* order.
SortedKeysDropLast(scores) ==
    LET N == Cardinality(DOMAIN scores)
    IN  SortSeq([k \in 1..(N - 1) |-> k - 1], LAMBDA i, j : RanksBefore(scores, i, j))

SortedKeys(scores) ==
    LET N == Cardinality(DOMAIN scores)
    IN  SortSeq([k \in 1..N |-> k - 1], LAMBDA i, j : RanksBefore(scores, i, j))

NLargestAllButOne(n, scores) ==
    IF n - 1 <= 0 THEN <<>>
    ELSE LET sorted == SortedKeys(scores)
         IN  SubSeq(sorted, 1, IF n - 1 < Len(sorted) THEN n - 1 ELSE Len(sorted))

\* heapq.nlargest(n, sentence_scores, key=sentence_scores.get), line 83:
\* sorted(iterable, key=key, reverse=True)[:n], nothing for n <= 0.
NLargest(n, scores) ==
    IF n <= 0 THEN <<>>
    ELSE LET sorted == SortedKeys(scores)
         IN  SubSeq(sorted, 1, IF n < Len(sorted) THEN n ELSE Len(sorted))

\* line 86: ' '.join([sentences[i] for i in selected_sentences])
JoinSelected(sentences, selected) ==
    TextOf([k \in 1..Len(selected) |-> [s |-> sentences[selected[k] + 1], nl |-> FALSE]])

LuhnLangCheckMissing(text, num_sentences, lang) ==
    LET sentences == sent_tokenize(text)
    IN  IF ScoringRaises(sentences)
        THEN [exc |-> "ValueError", scored |-> TRUE, selected |-> <<>>, summary |-> <<>>]
        ELSE LET selected == NLargest(num_sentences, SentenceScores(sentences))
             IN  [exc |-> "none", scored |-> TRUE, selected |-> selected,
                  summary |-> JoinSelected(sentences, selected)]

\* The outcome of __luhn_summarizer(text, num_sentences, lang): the exception
\* it raises ("none": it returns), whether line 69 was reached, the indices
\* nlargest selected and the summary returned.
luhn_summarizer(text, num_sentences, lang) ==
    IF lang \notin LANG
    THEN [exc |-> "NotImplementedError", scored |-> FALSE,
          selected |-> <<>>, summary |-> <<>>]
    ELSE LET sentences == sent_tokenize(text)
         IN  IF ScoringRaises(sentences)
             THEN [exc |-> "ValueError", scored |-> TRUE,
                   selected |-> <<>>, summary |-> <<>>]
             ELSE LET selected == NLargest(num_sentences, SentenceScores(sentences))
                  IN  [exc |-> "none", scored |-> TRUE, selected |-> selected,
                       summary |-> JoinSelected(sentences, selected)]

(***************************************************************************)
(* __get_first_line, lines 195-233.  A file opened 'rb' is a sequence of   *)
(* byte lines; a byte is 0..255; a decoded str is a sequence of code       *)
(* points.  chardet.detect is the external detector: its answer for each   *)
(* line is an input (detected[i]), "None" standing for Python's None.      *)
(***************************************************************************)
NoneEncoding == "None"

\* The names bytes.decode knows, among those the model uses.
KnownCodecs == {"ascii", "utf-8", "latin-1", "ISO-8859-1"}

IsCont(b) == b \in 128..191

RECURSIVE Utf8From(_, _, _)
\* The UTF-8 decoding of bytes b from position i on, acc decoded so far.
Utf8From(b, i, acc) ==
    IF i > Len(b) THEN [ok |-> TRUE, text |-> acc]
    ELSE LET x == b[i]
             has(k) == i + k <= Len(b) /\ \A d \in 1..k : IsCont(b[i + d])
         IN  IF x < 128 THEN Utf8From(b, i + 1, Append(acc, x))
             ELSE IF x \in 194..223 /\ has(1)
             THEN Utf8From(b, i + 2, Append(acc, (x - 192) * 64 + (b[i + 1] - 128)))
             ELSE IF /\ x \in 224..239 /\ has(2)
                     /\ (x = 224 => b[i + 1] >= 160)
                     /\ (x = 237 => b[i + 1] <= 159)
             THEN Utf8From(b, i + 3, Append(acc,
                      (x - 224) * 4096 + (b[i + 1] - 128) * 64 + (b[i + 2] - 128)))
             ELSE IF /\ x \in 240..244 /\ has(3)
                     /\ (x = 240 => b[i + 1] >= 144)
                     /\ (x = 244 => b[i + 1] <= 143)
             THEN Utf8From(b, i + 4, Append(acc,
                      (x - 240) * 262144 + (b[i + 1] - 128) * 4096
                      + (b[i + 2] - 128) * 64 + (b[i + 3] - 128)))
             ELSE [ok |-> FALSE, text |-> <<>>]

\* bytes.decode(encoding), line 221: the exception raised ("none": decoded)
\* and the decoded text.
Decode(encoding, b) ==
    IF encoding = NoneEncoding THEN [exc |-> "TypeError", text |-> <<>>]
    ELSE IF encoding \notin KnownCodecs THEN [exc |-> "LookupError", text |-> <<>>]
    ELSE IF encoding = "ascii"
    THEN IF \A i \in 1..Len(b) : b[i] < 128
         THEN [exc |-> "none", text |-> b]
         ELSE [exc |-> "UnicodeDecodeError", text |-> <<>>]
    ELSE IF encoding = "utf-8"
    THEN LET d == Utf8From(b, 1, <<>>)
         IN  IF d.ok THEN [exc |-> "none", text |-> d.text]
             ELSE [exc |-> "UnicodeDecodeError", text |-> <<>>]
    ELSE [exc |-> "none", text |-> b]

\* The code points str.strip() removes.
IsSpace(c) ==
    \/ c \in 9..13 \/ c \in 28..32 \/ c = 133 \/ c = 160 \/ c = 5760
    \/ c \in 8192..8202 \/ c \in {8232, 8233, 8239, 8287, 12288}

\* str.strip(), line 222
Strip(text) ==
    LET keep == {i \in 1..Len(text) : ~IsSpace(text[i])}
    IN  IF keep = {} THEN <<>>
        ELSE LET lo == CHOOSE i \in keep : \A j \in keep : i <= j
                 hi == CHOOSE i \in keep : \A j \in keep : j <= i
             IN  SubSeq(text, lo, hi)

\* line 216
EncodingsToTry(encoding) == <<encoding, "utf-8", "latin-1">>

\* log: what lines 228 and 233 have printed, in order.
NoSample ==
    [exc |-> "none", found |-> FALSE, text |-> <<>>, lineNo |-> 0, tryNo |-> 0,
     log |-> <<>>]

\* line 228
DecodeErrorMessage(encoding) == <<"Error decoding line in", encoding, "encoding">>

\* line 233
UnableMessage == <<"Unable to decode the line with any of the encodings">>

\* r, after the messages of log were printed before it
After(log, r) == [r EXCEPT !.log = log \o @]

RECURSIVE TryFrom(_, _, _, _)
\* lines 218-228 for one line: the candidates from the k-th on.
TryFrom(b, lineNo, encodings, k) ==
    IF k > Len(encodings) THEN NoSample
    ELSE LET d == Decode(encodings[k], b)
         IN  IF d.exc = "UnicodeDecodeError"
             THEN After(<<DecodeErrorMessage(encodings[k])>>,
                        TryFrom(b, lineNo, encodings, k + 1))
             ELSE IF d.exc # "none"
             THEN [exc |-> d.exc, found |-> FALSE, text |-> <<>>,
                   lineNo |-> lineNo, tryNo |-> k, log |-> <<>>]
             ELSE IF Strip(d.text) # <<>>
             THEN [exc |-> "none", found |-> TRUE, text |-> Strip(d.text),
                   lineNo |-> lineNo, tryNo |-> k, log |-> <<>>]
             ELSE TryFrom(b, lineNo, encodings, k + 1)

\* line 223: decoded, once every candidate was tried
Decoded(b, encodings) == \E k \in 1..Len(encodings) : Decode(encodings[k], b).exc = "none"

RECURSIVE FirstLineFrom(_, _, _)
\* lines 207-233: the loop over the lines from the i-th on.
FirstLineFrom(raw, detected, i) ==
    IF i > Len(raw) THEN NoSample
    ELSE LET r == TryFrom(raw[i], i, EncodingsToTry(detected[i]), 1)
         IN  IF r.exc # "none" \/ r.found THEN r
             ELSE After(r.log \o (IF Decoded(raw[i], EncodingsToTry(detected[i]))
                                  THEN <<>> ELSE <<UnableMessage>>),
                        FirstLineFrom(raw, detected, i + 1))

\* __get_first_line(file_path) on a file whose byte lines are raw: the
\* exception raised, or the sample returned (found), or None (~found), with the
\* line and the candidate (1..3) that produced the outcome.
get_first_line(raw, detected) == FirstLineFrom(raw, detected, 1)

\* The lines of raw the loop of line 207 got to, each handed to
\* chardet.detect (line 212).
LinesExamined(raw, r) == IF r.exc # "none" \/ r.found THEN r.lineNo ELSE Len(raw)

(***************************************************************************)
(* Paths: __get_file_extension, __allowed_extenstion (lines 138-164) and   *)
(* the output path of line 107.                                            *)
(***************************************************************************)
\* str.rfind(c), 1-based; 0 when c does not occur
RFind(p, c) ==
    LET at == {i \in 1..Len(p) : p[i] = c}
    IN  IF at = {} THEN 0 ELSE CHOOSE i \in at : \A j \in at : j <= i

\* os.path.splitext(file_path)[1], line 149: the extension starts at the last
\* dot of the last component, unless only dots precede it there.
get_file_extension(file_path) ==
    LET sep == RFind(file_path, "/")
        dot == RFind(file_path, ".")
    IN  IF dot > sep /\ \E k \in (sep + 1)..(dot - 1) : file_path[k] # "."
        THEN SubSeq(file_path, dot, Len(file_path))
        ELSE <<>>

AllowedAnyExtension(file_path) == TRUE

\* line 163-164
allowed_extenstion(file_path) == get_file_extension(file_path) \in ALLOWED_FILE_EXTENTIONS

StartsAt(s, i, old) ==
    i + Len(old) - 1 <= Len(s) /\ SubSeq(s, i, i + Len(old) - 1) = old

RECURSIVE ReplaceFrom(_, _, _, _)
ReplaceFrom(s, i, old, new) ==
    IF i > Len(s) THEN <<>>
    ELSE IF StartsAt(s, i, old) THEN new \o ReplaceFrom(s, i + Len(old), old, new)
    ELSE <<s[i]>> \o ReplaceFrom(s, i + 1, old, new)

\* file_path.replace('.txt', '_abstract.txt'), line 107: every occurrence
OutputPath(file_path) ==
    ReplaceFrom(file_path, 1, <<".", "t", "x", "t">>,
                <<"_", "a", "b", "s", "t", "r", "a", "c", "t", ".", "t", "x", "t">>)

\* The directory part of a path (up to the last '/').
DirName(p) == SubSeq(p, 1, RFind(p, "/"))

(***************************************************************************)
(* Inputs.                                                                 *)
(***************************************************************************)
PathTxt == <<"a", ".", "t", "x", "t">>

Paths ==
    { PathTxt,
      <<"a", ".", "m", "d">>,
      <<"a">>,
      <<"d", ".", "t", "x", "t", "/", "a", ".", "t", "x", "t">> }

\* Small texts: every text of up to MaxLen pieces.
SmallTexts == {TextOf(p) : p \in SeqsUpTo(Pieces, MaxLen)}

TinyTexts == {TextOf(p) : p \in SeqsUpTo(Pieces, 1)}

\* n lines, each one sentence of weight 1 and a line break, then (tail) an
\* unterminated last line.
BigText(n, tail) ==
    <<Run(1, TRUE, n)>> \o (IF tail THEN <<Run(1, FALSE, 1)>> ELSE <<>>)

\* n lines, all empty but the first two, which are one sentence each
SparseText(n) == <<Run(2, TRUE, 1), Run(1, TRUE, 1), Run(NoSentence, TRUE, n - 2)>>

BigTexts ==
    { BigText(BUFFER_LIMIT, FALSE), BigText(BUFFER_LIMIT, TRUE),
      BigText(BUFFER_LIMIT + 1, FALSE), BigText(BUFFER_LIMIT + 1, TRUE),
      BigText(2 * BUFFER_LIMIT + 2, FALSE), BigText(2500, FALSE),
      SparseText(BUFFER_LIMIT + 1) }

\* Files of two or three chunks: an unterminated line after the first chunk,
\* the same with a sentence the vectorizer rejects, such a sentence in the
\* first chunk, and 2002 lines and a rest.
LongTexts ==
    { BigText(BUFFER_LIMIT + 1, TRUE),
      <<Run(1, TRUE, BUFFER_LIMIT + 1), Run(EmptyVocab, FALSE, 1)>>,
      <<Run(EmptyVocab, TRUE, 1), Run(1, TRUE, BUFFER_LIMIT), Run(2, TRUE, 1)>>,
      <<Run(1, TRUE, 2 * BUFFER_LIMIT + 2), Run(2, TRUE, 1), Run(3, FALSE, 1)>> }

\* Byte lines of the binary view: "\n", " \n", "A\n", U+2003 EM SPACE in
\* UTF-8, e-acute in UTF-8, e-acute in latin-1, NBSP in latin-1, and an
\* unterminated "A".
RawLines ==
    { <<10>>, <<32, 10>>, <<65, 10>>, <<226, 128, 131, 10>>, <<195, 169, 10>>,
      <<233, 10>>, <<160, 10>>, <<65>> }

\* Longest binary file of the __get_first_line runs, in lines.
MaxRawLines == 2

RawFiles == SeqsUpTo(RawLines, MaxRawLines)

\* What chardet.detect(line)['encoding'] may answer: None, or a name;
\* "EUC-TW" is a name chardet knows and bytes.decode does not.
DetectOutcomes == {NoneEncoding, "ascii", "utf-8", "ISO-8859-1", "EUC-TW"}

\* What langdetect.detect may answer.
LangOutcomes == {"en", "ru", "es"}

\* What chardet answers for the re-encoded sample, line 193.
EncodingOutcomes == {NoneEncoding, "ascii", "utf-8", "EUC-TW"}

(***************************************************************************)
(* State.                                                                  *)
(***************************************************************************)
VARIABLES
    entry,            \* the method called: "process_file", "summary_file",
                      \* "luhn_summarizer" or "get_first_line"
    file_path,        \* the path argument
    exists,           \* os.path.exists(file_path)
    raw,              \* the file's byte lines (binary view)
    detected,         \* chardet's answer for each byte line
    text,             \* the file's content as open(..., 'r') decodes it
    failAt,           \* the read (1, 2, ..) at which decoding the file raises
                      \* UnicodeDecodeError; 0: no read raises
    pc,               \* the statement about to run
    line,             \* process_file's line: the outcome of __get_first_line
    lang,             \* the lang argument / local
    encoding,         \* the encoding argument / local
    exc,              \* the exception being propagated, "none" if none
    printed,          \* what print(e) of line 254 has printed
    in_state,         \* the input handle: "unopened", "open", "closed"
    out_state,        \* the output handle
    pos,              \* pieces of text consumed by the iteration of line 109
    nread,            \* lines read
    buffer,           \* __summary_file's buffer
    senences_amount,  \* the num_sentences of the last __luhn_summarizer call
    chunk,            \* the text of the last __luhn_summarizer call
    luhn,             \* the outcome of the last __luhn_summarizer call
    out,              \* the strings written to summary_file, in order
    flushes,          \* which statement made each write: "threshold"
                      \* (line 122) or "final" (line 136)
    chunks,           \* the text of every __luhn_summarizer call made by
                      \* __summary_file, in order
    events            \* the calls made to the file system and to the
                      \* detectors, in order

inputs == <<entry, file_path, exists, raw, detected, text, failAt>>

locals == <<line, lang, encoding>>

loop == <<pos, nread, buffer, senences_amount, chunk, luhn, out, flushes, chunks>>

vars == <<inputs, pc, locals, exc, printed, in_state, out_state, loop, events>>

NoCall == [exc |-> "none", scored |-> FALSE, selected |-> <<>>, summary |-> <<>>]

\* Everything but the inputs, before the first statement.
Fresh ==
    /\ line = NoSample
    /\ exc = "none"
    /\ printed = <<>>
    /\ in_state = "unopened"
    /\ out_state = "unopened"
    /\ pos = 0
    /\ nread = 0
    /\ buffer = <<>>
    /\ luhn = NoCall
    /\ out = <<>>
    /\ flushes = <<>>
    /\ chunks = <<>>
    /\ events = <<>>

\* process_file(file_path) on a file of one byte line and a tiny text, over
\* every path and detector answer, and on files of several chunks, of which
\* raw is the first byte line (the only one __get_first_line reads).
InitProcessFile ==
    /\ entry = "process_file"
    /\ pc = "pf_exists"
    /\ \/ /\ file_path \in Paths
          /\ exists \in BOOLEAN
          /\ raw = <<<<65, 10>>>>
          /\ detected = <<"ascii">>
          /\ text = <<Run(1, TRUE, 1)>>
          /\ failAt = 0
       \/ /\ file_path = PathTxt
          /\ exists = TRUE
          /\ raw \in {r \in RawFiles : Len(r) <= 1}
          /\ detected \in [1..Len(raw) -> DetectOutcomes]
          /\ text = <<Run(1, TRUE, 1)>>
          /\ failAt = 0
       \/ /\ file_path = PathTxt
          /\ exists = TRUE
          /\ raw = <<<<65, 10>>>>
          /\ detected = <<"ascii">>
          /\ text \in TinyTexts
          /\ failAt \in 0..2
       \/ /\ file_path = PathTxt
          /\ exists = TRUE
          /\ raw = <<<<65, 10>>>>
          /\ detected = <<"ascii">>
          /\ text \in LongTexts
          /\ failAt \in {0, BUFFER_LIMIT + 2}
    /\ lang = "en"
    /\ encoding = NoneEncoding
    /\ senences_amount = 0
    /\ chunk = <<>>
    /\ Fresh

\* __summary_file(file_path, lang, encoding) called directly.
InitSummaryFile ==
    /\ entry = "summary_file"
    /\ pc = "sf_lang"
    /\ raw = <<>>
    /\ detected = <<>>
    /\ \/ /\ text \in BigTexts
          /\ lang = "en"
          /\ file_path = PathTxt
          /\ exists = TRUE
          /\ encoding = "utf-8"
          /\ failAt = 0
       \/ /\ text \in SmallTexts
          /\ lang \in {"en", "es"}
          /\ file_path = PathTxt
          /\ exists = TRUE
          /\ encoding = "utf-8"
          /\ failAt = 0
       \/ /\ text \in TinyTexts
          /\ lang \in {"ru", "es"}
          /\ file_path \in Paths
          /\ exists \in BOOLEAN
          /\ encoding \in EncodingOutcomes
          /\ failAt \in 0..1
    /\ senences_amount = 0
    /\ chunk = <<>>
    /\ Fresh

Init == InitProcessFile \/ InitSummaryFile

(***************************************************************************)
(* Raising: both with-statements of lines 105-107 close what they opened,  *)
(* and the exception reaches process_file's handler, or the caller when    *)
(* the method was called directly.                                         *)
(***************************************************************************)
LeftOpen(h) == h

Closed(h) == IF h = "open" THEN "closed" ELSE h

\* A call to the file system (os.path.exists, open, close, write) or to a
\* detector (chardet.detect, langdetect.detect).
Event(op, path, mode) == [op |-> op, path |-> path, mode |-> mode]

\* The output handle, then the input handle, are closed if they are open.
ClosingEvents ==
    (IF out_state = "open" THEN <<Event("close", OutputPath(file_path), "w")>> ELSE <<>>)
        \o (IF in_state = "open" THEN <<Event("close", file_path, "r")>> ELSE <<>>)

\* The statement made the calls evs, then raised e.
RaiseAfter(e, evs) ==
    /\ exc' = e
    /\ pc' = IF entry = "process_file" THEN "pf_except" ELSE "raised"
    /\ in_state' = Closed(in_state)
    /\ out_state' = Closed(out_state)
    /\ events' = events \o evs \o ClosingEvents

Raise(e) == RaiseAfter(e, <<>>)

\* The statement made the calls evs and control goes on at l.
GotoAfter(l, evs) ==
    /\ pc' = l
    /\ events' = events \o evs
    /\ UNCHANGED <<exc, in_state, out_state>>

Goto(l) == GotoAfter(l, <<>>)

(***************************************************************************)
(* process_file, lines 235-254.                                            *)
(***************************************************************************)
\* lines 244-245
PFCheckExists ==
    /\ pc = "pf_exists"
    /\ LET evs == <<Event("exists", file_path, "")>>
       IN  IF ~exists THEN RaiseAfter("FileNotFoundError", evs)
           ELSE GotoAfter("pf_ext", evs)
    /\ UNCHANGED <<inputs, locals, printed, loop>>

\* lines 247-248
PFCheckExtension ==
    /\ pc = "pf_ext"
    /\ IF ~allowed_extenstion(file_path) THEN Raise("ValueError")
       ELSE Goto("pf_first_line")
    /\ UNCHANGED <<inputs, locals, printed, loop>>

\* line 249
PFGetFirstLine ==
    /\ pc = "pf_first_line"
    /\ LET r == get_first_line(raw, detected)
           evs == <<Event("open", file_path, "rb")>>
                      \o [i \in 1..LinesExamined(raw, r) |-> Event("chardet", <<>>, "")]
                      \o <<Event("close", file_path, "rb")>>
       IN  /\ line' = r
           /\ IF r.exc # "none" THEN RaiseAfter(r.exc, evs)
              ELSE GotoAfter(IF entry = "process_file" THEN "pf_lang" ELSE "returned",
                             evs)
    /\ UNCHANGED <<inputs, lang, encoding, printed, loop>>

get_message_lang_uncoerced(answer) == answer

\* lines 178-180
get_message_lang(answer) == IF answer \notin LANG THEN "en" ELSE answer

\* line 250: detect(None) raises TypeError; detect may raise
\* LangDetectException (no features in the sample); else it answers.
PFGetMessageLang ==
    /\ pc = "pf_lang"
    /\ LET evs == <<Event("langdetect", <<>>, "")>>
       IN  IF ~line.found
           THEN RaiseAfter("TypeError", evs) /\ UNCHANGED lang
           ELSE \/ RaiseAfter("LangDetectException", evs) /\ UNCHANGED lang
                \/ \E answer \in LangOutcomes :
                       /\ lang' = get_message_lang(answer)
                       /\ GotoAfter("pf_enc", evs)
    /\ UNCHANGED <<inputs, line, encoding, printed, loop>>

\* line 251
PFGetMessageEncoding ==
    /\ pc = "pf_enc"
    /\ \E answer \in EncodingOutcomes : encoding' = answer
    /\ GotoAfter("sf_lang", <<Event("chardet", <<>>, "")>>)
    /\ UNCHANGED <<inputs, line, lang, printed, loop>>

CaughtOnlyRaisedHere == {"FileNotFoundError", "ValueError"}

\* The classes `except Exception` catches: every exception of the model.
CaughtClasses ==
    {"FileNotFoundError", "ValueError", "TypeError", "LookupError",
     "NotImplementedError", "UnicodeDecodeError", "LangDetectException"}

\* lines 253-254
PFExcept ==
    /\ pc = "pf_except"
    /\ IF exc \in CaughtClasses
       THEN /\ printed' = Append(printed, exc)
            /\ exc' = "none"
            /\ pc' = "returned"
       ELSE /\ pc' = "raised"
            /\ UNCHANGED <<exc, printed>>
    /\ UNCHANGED <<inputs, locals, in_state, out_state, loop, events>>

(***************************************************************************)
(* __summary_file, lines 89-136.                                           *)
(***************************************************************************)
\* lines 102-103
SFCheckLang ==
    /\ pc = "sf_lang"
    /\ IF lang \notin LANG THEN Raise("NotImplementedError") ELSE Goto("sf_open_in")
    /\ UNCHANGED <<inputs, locals, printed, loop>>

\* line 105: open(file_path, 'r', encoding=encoding)
SFOpenInput ==
    /\ pc = "sf_open_in"
    /\ IF ~exists THEN Raise("FileNotFoundError")
       ELSE IF encoding \notin KnownCodecs \cup {NoneEncoding} THEN Raise("LookupError")
       ELSE /\ in_state' = "open"
            /\ pc' = "sf_open_out"
            /\ events' = Append(events, Event("open", file_path, "r"))
            /\ UNCHANGED <<exc, out_state>>
    /\ UNCHANGED <<inputs, locals, printed, loop>>

\* lines 107-108, the open succeeding: open(..., 'w') creates or truncates
\* the output file.  When the output path is the input path the input, not
\* yet read, is truncated: nothing is left to read.
OutputOpened ==
    /\ out_state' = "open"
    /\ out' = <<>>
    /\ buffer' = <<>>
    /\ pos' = IF OutputPath(file_path) = file_path THEN NumPieces(text) ELSE pos
    /\ pc' = "sf_read"
    /\ events' = Append(events, Event("open", OutputPath(file_path), "w"))
    /\ UNCHANGED <<exc, in_state, nread, senences_amount, chunk, luhn, flushes,
                   chunks>>

\* lines 107-108: the directory of the input exists; when the output path
\* lies in another directory, that directory exists or the open raises
\* FileNotFoundError.
SFOpenOutput ==
    /\ pc = "sf_open_out"
    /\ IF DirName(OutputPath(file_path)) # DirName(file_path)
       THEN \/ Raise("FileNotFoundError") /\ UNCHANGED loop
            \/ OutputOpened
       ELSE OutputOpened
    /\ UNCHANGED <<inputs, locals, printed>>

RECURSIVE LineEnd(_, _)
\* The last piece of the line that starts at piece i of t.
LineEnd(t, i) == IF i >= NumPieces(t) \/ PieceAt(t, i).nl THEN i ELSE LineEnd(t, i + 1)

SliceFromStart(t, lo, hi) == TextOf([k \in 1..(hi - lo + 1) |-> PieceAt(t, k)])

\* The pieces lo..hi of a text, as a text.
Slice(t, lo, hi) == TextOf([k \in 1..(hi - lo + 1) |-> PieceAt(t, lo + k - 1)])

OverLimitByTwo(b) == CountNL(b) > BUFFER_LIMIT + 1

OverLimitAtLimit(b) == CountNL(b) >= BUFFER_LIMIT

\* line 114
OverLimit(b) == CountNL(b) > BUFFER_LIMIT

\* lines 109-114: the next line is read and appended, and the buffer tested.
SFReadLine ==
    /\ pc = "sf_read"
    /\ pos < NumPieces(text)
    /\ IF failAt = nread + 1
       THEN Raise("UnicodeDecodeError") /\ UNCHANGED <<pos, nread, buffer>>
       ELSE LET end == LineEnd(text, pos + 1)
                b == Concat(buffer, Slice(text, pos + 1, end))
            IN  /\ buffer' = b
                /\ pos' = end
                /\ nread' = nread + 1
                /\ Goto(IF OverLimit(b) THEN "sf_flush" ELSE "sf_read")
    /\ UNCHANGED <<inputs, locals, printed, senences_amount, chunk, luhn, out,
                   flushes, chunks>>

\* line 109 at end of file, and the test of line 128
NonEmptyAlways(b) == TRUE

NonEmpty(b) == b # <<>>

SFEndOfInput ==
    /\ pc = "sf_read"
    /\ pos = NumPieces(text)
    /\ Goto(IF NonEmpty(buffer) THEN "sf_final" ELSE "sf_close")
    /\ UNCHANGED <<inputs, locals, printed, loop>>

\* lines 116-122 and 130-136: the buffer is summarized and the summary written.
Summarize(kind, next, to) ==
    LET n == SentencesAmount(buffer)
        r == luhn_summarizer(buffer, n, lang)
    IN  /\ senences_amount' = n
        /\ chunk' = buffer
        /\ chunks' = Append(chunks, buffer)
        /\ luhn' = r
        /\ IF r.exc # "none"
           THEN Raise(r.exc) /\ UNCHANGED <<out, flushes, buffer>>
           ELSE /\ out' = Append(out, Concat(r.summary, NL))
                /\ flushes' = Append(flushes, kind)
                /\ buffer' = next
                /\ GotoAfter(to, <<Event("write", OutputPath(file_path), "w")>>)

SFThresholdFlushNoReset ==
    /\ pc = "sf_flush"
    /\ Summarize("threshold", buffer, "sf_read")
    /\ UNCHANGED <<inputs, locals, printed, pos, nread>>

SFThresholdFlushSwallows ==
    /\ pc = "sf_flush"
    /\ LET r == luhn_summarizer(buffer, SentencesAmount(buffer), lang)
       IN  /\ chunk' = buffer
           /\ chunks' = Append(chunks, buffer)
           /\ luhn' = r
           /\ senences_amount' = SentencesAmount(buffer)
           /\ buffer' = <<>>
           /\ IF r.exc # "none" THEN UNCHANGED <<out, flushes>> /\ Goto("sf_read")
              ELSE /\ out' = Append(out, Concat(r.summary, NL))
                   /\ flushes' = Append(flushes, "threshold")
                   /\ GotoAfter("sf_read", <<Event("write", OutputPath(file_path), "w")>>)
    /\ UNCHANGED <<inputs, locals, printed, pos, nread>>

\* lines 115-125
SFThresholdFlush ==
    /\ pc = "sf_flush"
    /\ Summarize("threshold", <<>>, "sf_read")
    /\ UNCHANGED <<inputs, locals, printed, pos, nread>>

SFFinalFlushNoWrite ==
    /\ pc = "sf_final"
    /\ chunks' = Append(chunks, buffer)
    /\ Goto("sf_close")
    /\ UNCHANGED <<inputs, locals, printed, pos, nread, buffer, senences_amount,
                   chunk, luhn, out, flushes>>

\* lines 128-136
SFFinalFlush ==
    /\ pc = "sf_final"
    /\ Summarize("final", buffer, "sf_close")
    /\ UNCHANGED <<inputs, locals, printed, pos, nread>>

\* the end of the with-statements: both files are closed and the method
\* returns (and with it process_file, line 252).
SFClose ==
    /\ pc = "sf_close"
    /\ in_state' = "closed"
    /\ out_state' = "closed"
    /\ pc' = "returned"
    /\ events' = events \o ClosingEvents
    /\ UNCHANGED <<inputs, locals, exc, printed, loop>>

Next ==
    \/ PFCheckExists
    \/ PFCheckExtension
    \/ PFGetFirstLine
    \/ PFGetMessageLang
    \/ PFGetMessageEncoding
    \/ PFExcept
    \/ SFCheckLang
    \/ SFOpenInput
    \/ SFOpenOutput
    \/ SFReadLine
    \/ SFEndOfInput
    \/ SFThresholdFlush
    \/ SFFinalFlush
    \/ SFClose

Spec == Init /\ [][Next]_vars

\* The steps of __summary_file.
NextSummaryFile ==
    \/ SFCheckLang
    \/ SFOpenInput
    \/ SFOpenOutput
    \/ SFReadLine
    \/ SFEndOfInput
    \/ SFThresholdFlush
    \/ SFFinalFlush
    \/ SFClose

(***************************************************************************)
(* __luhn_summarizer(text, num_sentences, lang) called directly, on every  *)
(* small text.                                                             *)
(***************************************************************************)
InitLuhn ==
    /\ entry = "luhn_summarizer"
    /\ pc = "luhn_call"
    /\ chunk \in SmallTexts
    /\ senences_amount \in 0..MaxK
    /\ lang \in {"en", "ru", "es"}
    /\ file_path = PathTxt
    /\ exists = TRUE
    /\ raw = <<>>
    /\ detected = <<>>
    /\ text = <<>>
    /\ failAt = 0
    /\ encoding = NoneEncoding
    /\ Fresh

LuhnCall ==
    /\ pc = "luhn_call"
    /\ LET r == luhn_summarizer(chunk, senences_amount, lang)
       IN  /\ luhn' = r
           /\ IF r.exc # "none" THEN Raise(r.exc) ELSE Goto("returned")
    /\ UNCHANGED <<inputs, locals, printed, pos, nread, buffer, senences_amount,
                   chunk, out, flushes, chunks>>

NextLuhn == LuhnCall

SpecLuhn == InitLuhn /\ [][NextLuhn]_vars

(***************************************************************************)
(* __get_first_line(file_path) called directly, on every binary file of    *)
(* up to MaxRawLines lines and every answer of the detector.               *)
(***************************************************************************)
InitFirstLine ==
    /\ entry = "get_first_line"
    /\ pc = "pf_first_line"
    /\ raw \in RawFiles
    /\ detected \in [1..Len(raw) -> DetectOutcomes]
    /\ file_path = PathTxt
    /\ exists = TRUE
    /\ text = <<>>
    /\ failAt = 0
    /\ lang = "en"
    /\ encoding = NoneEncoding
    /\ senences_amount = 0
    /\ chunk = <<>>
    /\ Fresh

NextFirstLine == PFGetFirstLine

SpecFirstLine == InitFirstLine /\ [][NextFirstLine]_vars

(***************************************************************************)
(* The two methods that take a language, called directly.                  *)
(***************************************************************************)
SpecDirect == (InitLuhn \/ InitSummaryFile) /\ [][LuhnCall \/ NextSummaryFile]_vars

(***************************************************************************)
(* Properties.                                                             *)
(***************************************************************************)
Max(a, b) == IF a >= b THEN a ELSE b

Min(a, b) == IF a <= b THEN a ELSE b

\* How often x occurs in the sequence s.
Times(s, x) == Cardinality({i \in 1..Len(s) : s[i] = x})

\* floor(0.3 * n), 0.3 the real number 3/10
FloorOfFraction(n) == (3 * n) \div 10

\* __summary_file ran to its end: no exception was raised or reported.
Completed ==
    /\ pc = "returned"
    /\ printed = <<>>
    /\ entry \in {"process_file", "summary_file"}

\* The last __luhn_summarizer call of __summary_file returned a summary.
Summarized == luhn.scored /\ luhn.exc = "none"

\* C1 (as claimed): the buffer never holds more than BUFFER_LIMIT (1000) line
\* terminators.
C1_Original == CountNL(buffer) <= BUFFER_LIMIT

\* C1 (amended): the buffer never holds more than BUFFER_LIMIT + 1 (1001)
\* line terminators, whatever the length of the input, and it holds more than
\* BUFFER_LIMIT only at the moment it is flushed, or when that flush raised
\* and ended __summary_file.
C1_BufferBound ==
    /\ CountNL(buffer) <= BUFFER_LIMIT + 1
    /\ CountNL(buffer) > BUFFER_LIMIT =>
           \/ pc = "sf_flush"
           \/ pc \in {"pf_except", "raised"} /\ exc = luhn.exc /\ luhn.exc # "none"
           \/ pc = "returned" /\ printed = <<luhn.exc>>

\* The second chunk of a file of more than 2 * BUFFER_LIMIT lines is full.
C1_Witness ==
    /\ CountNL(buffer) = BUFFER_LIMIT + 1
    /\ Len(out) = 1
    /\ CountNL(text) > 2 * BUFFER_LIMIT

\* C2: a file of 2500 terminated one-sentence lines in English gets exactly 3
\* writes, two threshold flushes then one final flush; in general the writes
\* are the threshold flushes (one for every BUFFER_LIMIT + 1 lines read), plus
\* one iff the buffer is not empty at the end of the input.
C2_WriteCount ==
    Completed =>
        /\ Len(out) = Times(flushes, "threshold") + (IF buffer # <<>> THEN 1 ELSE 0)
        /\ Times(flushes, "threshold") = CountNL(text) \div (BUFFER_LIMIT + 1)
        /\ (text = BigText(2500, FALSE) /\ lang = "en")
               => /\ Len(out) = 3
                  /\ flushes = <<"threshold", "threshold", "final">>

C2_Witness ==
    /\ Completed
    /\ text = BigText(2500, FALSE)
    /\ lang = "en"
    /\ Len(out) = 3

\* C3: process_file never propagates an exception: whatever is raised while
\* it runs reaches its handler, is printed, and process_file returns.
C3_NeverPropagates ==
    [][entry = "process_file" =>
          /\ pc' # "raised"
          /\ (exc' # "none" => pc' = "pf_except")
          /\ (pc = "pf_except" =>
                 /\ pc' = "returned"
                 /\ exc' = "none"
                 /\ printed' = Append(printed, exc))]_vars

\* A read of the input failed to decode, and process_file returned.
C3_Witness ==
    /\ entry = "process_file"
    /\ pc = "returned"
    /\ exc = "none"
    /\ printed = <<"UnicodeDecodeError">>

\* C4: at every flush, threshold or final, the count handed to the summarizer
\* is max(1, floor(0.3 * line terminators in the buffer)), hence >= 1.
C4_SentenceCount ==
    luhn.scored =>
        /\ senences_amount = Max(1, FloorOfFraction(CountNL(chunk)))
        /\ senences_amount >= 1

\* A threshold flush (300 sentences and a line break written) was followed by the final flush
\* of a buffer without any line terminator, with count 1.
C4_Witness ==
    /\ flushes = <<"threshold", "final">>
    /\ NumPieces(out[1]) = 300
    /\ CountNL(chunk) = 0
    /\ senences_amount = 1

\* C5 (as claimed): the number of sentences selected from a chunk equals
\* max(1, floor(0.3 * newline count)) and never exceeds the chunk's N sentences.
C5_Original ==
    Summarized =>
        /\ Len(luhn.selected) = Max(1, FloorOfFraction(CountNL(chunk)))
        /\ Len(luhn.selected) <= Len(sent_tokenize(chunk))

\* C5 (amended): the number of sentences selected from a chunk of N sentences
\* is the smaller of N and max(1, floor(0.3 * newline count)).
C5_SelectedCount ==
    Summarized =>
        Len(luhn.selected) =
            Min(Len(sent_tokenize(chunk)), Max(1, FloorOfFraction(CountNL(chunk))))

\* A full chunk of two sentences: both are selected, not 300.
C5_Witness ==
    /\ Summarized
    /\ CountNL(chunk) = BUFFER_LIMIT + 1
    /\ Len(sent_tokenize(chunk)) = 2
    /\ Len(luhn.selected) = 2

\* C6: the summary lists the selected sentences by descending score, equal
\* scores by ascending index; no sentence left out beats a selected one; the
\* summary joins them in that order; scores [1, 3, 2] (the order of the
\* claim's [1, 5, 3]) and count 2 give S1 S2.
C6_ScoreOrder ==
    (entry = "luhn_summarizer" /\ pc = "returned") =>
        LET S == sent_tokenize(chunk)
            sel == luhn.selected
            chosen == {sel[k] : k \in 1..Len(sel)}
        IN  /\ \A a, b \in 1..Len(sel) : a < b =>
                   \/ S[sel[a] + 1] > S[sel[b] + 1]
                   \/ S[sel[a] + 1] = S[sel[b] + 1] /\ sel[a] < sel[b]
            /\ \A j \in (0..(Len(S) - 1)) \ chosen : \A c \in chosen :
                   \/ S[j + 1] < S[c + 1]
                   \/ S[j + 1] = S[c + 1] /\ c < j
            /\ sent_tokenize(luhn.summary) = [k \in 1..Len(sel) |-> S[sel[k] + 1]]
            /\ CountNL(luhn.summary) = 0
            /\ (S = <<1, 3, 2>> /\ senences_amount = 2) => sel = <<1, 2>>

C6_Witness ==
    /\ entry = "luhn_summarizer"
    /\ pc = "returned"
    /\ sent_tokenize(chunk) = <<1, 3, 2>>
    /\ senences_amount = 2
    /\ luhn.selected = <<1, 2>>
    /\ luhn.summary = <<Run(3, FALSE, 1), Run(2, FALSE, 1)>>

\* C7: when the count exceeds the number of sentences of the chunk (zero
\* included), every sentence is selected exactly once and nothing is raised.
C7_AllWhenFewer ==
    LET S == sent_tokenize(chunk)
        sel == luhn.selected
    IN  (/\ entry = "luhn_summarizer"
         /\ pc \in {"returned", "raised"}
         /\ lang \in LANG
         /\ ~ScoringRaises(S)
         /\ senences_amount > Len(S))
        => /\ pc = "returned"
           /\ luhn.exc = "none"
           /\ Len(sel) = Len(S)
           /\ {sel[k] : k \in 1..Len(sel)} = 0..(Len(S) - 1)

C7_Witness ==
    /\ entry = "luhn_summarizer"
    /\ pc = "returned"
    /\ Len(sent_tokenize(chunk)) = 2
    /\ senences_amount = 3
    /\ Len(luhn.selected) = 2

\* C8: there is at most one final flush, it is the last write and nothing is
\* read after it; a run that reaches the end of the input makes it iff the
\* buffer is not empty there.
C8_FinalFlush ==
    /\ Times(flushes, "final") <= 1
    /\ Times(flushes, "final") = 1 =>
           /\ flushes[Len(flushes)] = "final"
           /\ pc \in {"sf_close", "returned"}
           /\ pos = NumPieces(text)
    /\ Completed => (Times(flushes, "final") = 1 <=> buffer # <<>>)

\* The last line read triggered a threshold flush: no final write.
C8_Witness ==
    /\ Completed
    /\ flushes = <<"threshold">>
    /\ buffer = <<>>
    /\ Len(out) = 1

\* C9 (as claimed): the sample __get_first_line returns is the decoding of its
\* line under the first candidate (detected, utf-8, latin-1) that decodes the
\* line; no later candidate's decoding is returned.
C9_FirstDecodingWins ==
    (entry = "get_first_line" /\ pc = "returned" /\ line.found) =>
        LET b == raw[line.lineNo]
            candidates == <<detected[line.lineNo], "utf-8", "latin-1">>
            decodes(k) == Decode(candidates[k], b).exc = "none"
        IN  \E k \in 1..3 :
                /\ decodes(k)
                /\ \A j \in 1..(k - 1) : ~decodes(j)
                /\ line.tryNo = k
                /\ line.text = Strip(Decode(candidates[k], b).text)

\* C10: with a language outside LANG, __luhn_summarizer and __summary_file
\* raise NotImplementedError before any sentence is segmented or scored and
\* before either file is opened; nothing is written.
C10_UnsupportedLanguage ==
    (lang \notin LANG /\ pc \notin {"luhn_call", "sf_lang"}) =>
        /\ pc = "raised"
        /\ exc = "NotImplementedError"
        /\ ~luhn.scored
        /\ luhn.selected = <<>>
        /\ in_state = "unopened"
        /\ out_state = "unopened"
        /\ out = <<>>

C10_Witness ==
    /\ entry = "summary_file"
    /\ lang = "es"
    /\ exists
    /\ pc = "raised"
    /\ exc = "NotImplementedError"
    /\ out_state = "unopened"

\* The statements of __summary_file.
SummaryFilePcs ==
    {"sf_lang", "sf_open_in", "sf_open_out", "sf_read", "sf_flush", "sf_final",
     "sf_close"}

\* How many events of e satisfy the test.
CountEvents(e, Test(_)) == Cardinality({i \in 1..Len(e) : Test(e[i])})

\* C11: in a process_file run the language handed to __summary_file is in
\* LANG (the detector's answer, coerced to en when it is not), it does not
\* change while __summary_file runs, and no chunk's __luhn_summarizer call
\* rejects it.
C11_SupportedLanguage ==
    [][entry = "process_file" =>
          /\ (pc' \in SummaryFilePcs => lang' \in LANG)
          /\ (pc \in SummaryFilePcs => lang' = lang)
          /\ luhn'.exc # "NotImplementedError"]_vars

\* A file of three chunks was summarized in the detected language ru.
C11_Witness ==
    /\ entry = "process_file"
    /\ Completed
    /\ lang = "ru"
    /\ Len(chunks) = 3
    /\ CountEvents(events, LAMBDA e : e.op = "langdetect") = 1

\* process_file has the exception e in flight to its handler, or has printed
\* it and nothing else.
Reported(e) ==
    \/ pc = "pf_except" /\ exc = e
    \/ pc = "returned" /\ exc = "none" /\ printed = <<e>>

\* C12: process_file rejects a missing path at the existence check, whatever
\* its extension, and an existing path whose extension is not .txt right after
\* it: the existence check is the only call made, no file is opened, no
\* detector runs and no output exists.
C12_RejectedBeforeIO ==
    (entry = "process_file" /\ pc # "pf_exists") =>
        /\ ~exists =>
               /\ Reported("FileNotFoundError")
               /\ events = <<Event("exists", file_path, "")>>
        /\ (exists /\ get_file_extension(file_path) # <<".", "t", "x", "t">>
                /\ pc # "pf_ext") =>
               /\ Reported("ValueError")
               /\ events = <<Event("exists", file_path, "")>>
               /\ in_state = "unopened"
               /\ out_state = "unopened"
               /\ line = NoSample
               /\ out = <<>>

\* a.md exists and was rejected for its extension.
C12_Witness ==
    /\ entry = "process_file"
    /\ exists
    /\ file_path = <<"a", ".", "m", "d">>
    /\ pc = "returned"
    /\ printed = <<"ValueError">>
    /\ events = <<Event("exists", file_path, "")>>

\* C13 (as claimed): the encoding process_file hands to __summary_file, with
\* which the input is read and the output written, is the encoding under
\* which the sample line was decoded: the candidate, of the encoding detected
\* for the line's bytes, utf-8 and latin-1, that produced the sample.
C13_EncodingMatches ==
    (entry = "process_file" /\ pc \in SummaryFilePcs) =>
        encoding = EncodingsToTry(detected[line.lineNo])[line.tryNo]

\* How many handles of the mode were opened, and how many closed.
Opens(mode) == CountEvents(events, LAMBDA e : e.op = "open" /\ e.mode = mode)

Closes(mode) == CountEvents(events, LAMBDA e : e.op = "close" /\ e.mode = mode)

\* C14 (as claimed): a process_file run that processes its file opens the
\* input exactly once and the output exactly once, and when process_file has
\* returned every handle opened is closed.
C14_Original ==
    (entry = "process_file" /\ pc = "returned") =>
        /\ Completed =>
               /\ CountEvents(events, LAMBDA e : e.op = "open" /\ e.path = file_path) = 1
               /\ Opens("w") = 1
        /\ \A mode \in {"rb", "r", "w"} : Closes(mode) = Opens(mode)
        /\ in_state # "open"
        /\ out_state # "open"

\* C14 (amended): process_file opens the input at most twice, one after the
\* other: once in binary mode in __get_first_line, closed before it returns,
\* and at most once in text mode in __summary_file; it opens the output at most
\* once; a run that processes its file makes each of the three opens exactly
\* once; and on every exit path every handle opened is closed.
C14_HandlesClosed ==
    entry = "process_file" =>
        /\ \A mode \in {"rb", "r", "w"} :
               /\ Opens(mode) <= 1
               /\ Closes(mode) <= Opens(mode)
        /\ Opens("rb") = Closes("rb")
        /\ Opens("r") <= Opens("rb")
        /\ Opens("w") <= Opens("r")
        /\ in_state = "open" <=> Opens("r") > Closes("r")
        /\ out_state = "open" <=> Opens("w") > Closes("w")
        /\ Completed => Opens("rb") = 1 /\ Opens("r") = 1 /\ Opens("w") = 1
        /\ pc \in {"pf_except", "returned", "raised"} =>
               /\ in_state # "open"
               /\ out_state # "open"
               /\ \A mode \in {"rb", "r", "w"} : Closes(mode) = Opens(mode)

\* The second chunk's summarizer call raised with both files open; both
\* were closed and process_file returned.
C14_Witness ==
    /\ entry = "process_file"
    /\ pc = "returned"
    /\ printed = <<"ValueError">>
    /\ Len(out) = 1
    /\ Opens("rb") = 1 /\ Opens("r") = 1 /\ Opens("w") = 1
    /\ Closes("r") = 1 /\ Closes("w") = 1
    /\ in_state = "closed"
    /\ out_state = "closed"

\* C15 (as claimed): the file process_file opens for writing is the input
\* path with its final .txt replaced by _abstract.txt, in the directory of
\* the input, and is not the input.
C15_OutputBesideInput ==
    \A i \in 1..Len(events) :
        (entry = "process_file" /\ events[i].op = "open" /\ events[i].mode = "w") =>
            /\ events[i].path =
                   SubSeq(file_path, 1, Len(file_path) - 4)
                       \o <<"_", "a", "b", "s", "t", "r", "a", "c", "t", ".", "t", "x", "t">>
            /\ DirName(events[i].path) = DirName(file_path)
            /\ events[i].path # file_path

\* C16: a threshold flush is the step right after an append, and happens iff
\* the buffer then holds more than BUFFER_LIMIT (1000) line terminators; the
\* chunk it summarizes holds exactly 1001 of them and its count is 300; a
\* buffer of exactly 1000 stays until the next line or the end of the input.
C16_ThresholdFlush ==
    [][/\ (pc = "sf_read" /\ nread' = nread + 1) =>
              (pc' = "sf_flush" <=> CountNL(buffer') > BUFFER_LIMIT)
       /\ pc' = "sf_flush" => (pc = "sf_read" /\ nread' = nread + 1)
       /\ pc = "sf_flush" =>
              /\ chunks' = Append(chunks, buffer)
              /\ CountNL(buffer) = BUFFER_LIMIT + 1
              /\ senences_amount' = 300
       /\ (Len(flushes') > Len(flushes) /\ flushes'[Len(flushes')] = "threshold") =>
              (pc = "sf_flush" /\ pc' = "sf_read")
       /\ (pc = "sf_read" /\ pc' = "sf_final") => CountNL(buffer) <= BUFFER_LIMIT]_vars

\* A file of exactly 1000 lines: no threshold flush, the final flush took the
\* 1000 lines.
C16_WitnessAtLimit ==
    /\ Completed
    /\ flushes = <<"final">>
    /\ CountNL(chunk) = BUFFER_LIMIT
    /\ senences_amount = 300

\* The 1001st line was appended and the buffer flushed, with count 300.
C16_Witness ==
    /\ flushes = <<"threshold">>
    /\ pc = "sf_read"
    /\ buffer = <<>>
    /\ CountNL(chunk) = BUFFER_LIMIT + 1
    /\ senences_amount = 300

\* C17 (as claimed): whatever the detector answers for a line, an encoding
\* name or None, __get_first_line raises nothing: a candidate that fails is
\* logged and the next one tried, and every file with at least one line yields
\* a sample.
C17_DecodeFailureNonFatal ==
    (entry = "get_first_line" /\ pc # "pf_first_line") =>
        /\ pc = "returned"
        /\ line.exc = "none"
        /\ raw # <<>> => line.found

\* The string written for a chunk handed to the summarizer: lines 119-122.
WrittenFor(c) == Concat(luhn_summarizer(c, SentencesAmount(c), lang).summary, NL)

\* C18: the output only grows, by one write per chunk summarized: the write
\* that follows the i-th summarizer call is the i-th write, it is that chunk's
\* summary followed by one line break, it goes to the open output, and a
\* chunk gets no write only when its summarizer call raised.
C18_WritePerChunk ==
    [][/\ out' # out =>
              /\ chunks' = Append(chunks, buffer)
              /\ Len(out') = Len(chunks')
              /\ out' = Append(out, WrittenFor(buffer))
              /\ CountNL(out'[Len(out')]) = 1
              /\ out'[Len(out')][Len(out'[Len(out')])].nl
              /\ out_state = "open"
       /\ chunks' # chunks => (out' # out \/ exc' # "none")
       /\ CountEvents(events', LAMBDA e : e.op = "write") = Len(out')]_vars

\* Three chunks, three writes: 300 sentences, 300 sentences, and of the rest
\* "2\n3" the sentence of weight 3.
C18_Witness ==
    /\ Completed
    /\ Len(chunks) = 3
    /\ Len(out) = 3
    /\ NumPieces(out[1]) = 300
    /\ NumPieces(out[2]) = 300
    /\ out[3] = <<Run(3, TRUE, 1)>>

RECURSIVE TakeFrom(_, _, _)
TakeFrom(t, k, n) ==
    IF n <= 0 \/ k > Len(t) THEN <<>>
    ELSE IF t[k].n <= n THEN <<t[k]>> \o TakeFrom(t, k + 1, n - t[k].n)
    ELSE <<Run(t[k].s, t[k].nl, n)>>

\* The first n pieces of a text.
TakePieces(t, n) == TakeFrom(t, 1, n)

RECURSIVE ConcatAllFrom(_, _)
ConcatAllFrom(ts, i) == IF i > Len(ts) THEN <<>> ELSE Concat(ts[i], ConcatAllFrom(ts, i + 1))

\* The texts of a sequence, concatenated in order.
ConcatAll(ts) == ConcatAllFrom(ts, 1)

\* The output file is not the input file (true of every path process_file
\* accepts): the input is read as it was.
InputKept == OutputPath(file_path) # file_path

\* C19 (as claimed): the buffer is empty right after every flush, threshold
\* or final; while lines are read the chunks flushed and the buffer make up
\* what was read; at the end the chunks, in flush order, make up the input.
C19_Original ==
    [][InputKept =>
          /\ Len(flushes') > Len(flushes) => buffer' = <<>>
          /\ pc' \in {"sf_read", "sf_flush", "sf_final"} =>
                 Concat(ConcatAll(chunks'), buffer') = TakePieces(text', pos')
          /\ Completed' => ConcatAll(chunks') = text']_vars

\* C19 (amended): the buffer is empty right after every threshold flush; the
\* final flush leaves it as it is and nothing is read after it.  Every line
\* read is appended verbatim to the buffer; while lines are read the chunks
\* flushed and the buffer make up exactly what was read; at the end the
\* chunks, in flush order, make up the whole input.
C19_ChunksPartition ==
    [][InputKept =>
          /\ (Len(flushes') > Len(flushes) /\ flushes'[Len(flushes')] = "threshold")
                 => buffer' = <<>>
          /\ (Len(flushes') > Len(flushes) /\ flushes'[Len(flushes')] = "final")
                 => (buffer' = buffer /\ pc' = "sf_close" /\ pos' = NumPieces(text))
          /\ nread' = nread + 1 =>
                 /\ pos' > pos
                 /\ chunks' = chunks
                 /\ Concat(ConcatAll(chunks), buffer') = TakePieces(text, pos')
          /\ pc' \in {"sf_read", "sf_flush", "sf_final"} =>
                 Concat(ConcatAll(chunks'), buffer') = TakePieces(text', pos')
          /\ Completed' => ConcatAll(chunks') = text']_vars

\* The three chunks of a file of 2002 lines and a rest make up the file.
C19_Witness ==
    /\ Completed
    /\ InputKept
    /\ Len(chunks) = 3
    /\ CountNL(chunks[1]) = BUFFER_LIMIT + 1
    /\ CountNL(chunks[2]) = BUFFER_LIMIT + 1
    /\ chunks[3] = <<Run(2, TRUE, 1), Run(3, FALSE, 1)>>
    /\ ConcatAll(chunks) = text

\* C20: in a process_file run, when the summarizer call for a chunk or the
\* read of a line raises while both files are open, that step closes both
\* files and hands the exception to the handler; nothing is read, summarized
\* or written afterwards; the output keeps the k - 1 summaries written
\* before the k-th chunk failed (none when k = 1); the handler prints the
\* exception and process_file returns.
C20_FailureStopsProcessing ==
    [][entry = "process_file" =>
          /\ (chunks' # chunks /\ luhn'.exc # "none") =>
                 /\ exc' = luhn'.exc
                 /\ Len(out') = Len(chunks') - 1
          /\ (pc = "sf_read" /\ nread' = nread /\ pc' # "sf_final" /\ pc' # "sf_close") =>
                 /\ exc' = "UnicodeDecodeError"
                 /\ Len(out') = Len(chunks')
          /\ (out_state = "open" /\ exc' # "none") =>
                 /\ pc' = "pf_except"
                 /\ in_state' = "closed"
                 /\ out_state' = "closed"
                 /\ out' = out
                 /\ pos' = pos /\ nread' = nread
                 /\ CountEvents(events', LAMBDA e : e.op = "write") = Len(out')
          /\ pc = "pf_except" =>
                 /\ pc' = "returned"
                 /\ exc' = "none"
                 /\ printed' = <<exc>>
                 /\ UNCHANGED <<out, chunks, pos, nread, in_state, out_state, events>>
          /\ pc # "returned"]_vars

\* The read of line 1002 failed: the first chunk's summary is in the closed
\* output, the line was not consumed, and process_file returned.
C20_Witness ==
    /\ entry = "process_file"
    /\ pc = "returned"
    /\ printed = <<"UnicodeDecodeError">>
    /\ Len(out) = 1
    /\ Len(chunks) = 1
    /\ nread = BUFFER_LIMIT + 1
    /\ pos < NumPieces(text)
    /\ in_state = "closed"
    /\ out_state = "closed"

\* The first chunk's summarizer call failed: the output exists and is empty.
C20_WitnessFirstChunk ==
    /\ entry = "process_file"
    /\ pc = "returned"
    /\ printed = <<"ValueError">>
    /\ CountNL(chunk) = BUFFER_LIMIT + 1
    /\ Len(chunks) = 1
    /\ out = <<>>
    /\ out_state = "closed"
    /\ pos < NumPieces(text)

===========================================================================
